---- MODULE Spec2Model ----
(***************************************************************************)
(* A model of the IntelliMarket browser client.                            *)
(*                                                                         *)
(*   src/unnamed/part_000      IntelliMarketAPI + ProgressTracker, copy A  *)
(*   src/unnamed/part_001      IntelliMarketAPI + ProgressTracker, copy B  *)
(*   src/app/frontend/js/main.js   IntelliMarketApp                        *)
(*                                                                         *)
(* Both part_000 and part_001 define the global classes IntelliMarketAPI   *)
(* and ProgressTracker that main.js instantiates; which copy the page      *)
(* loads is not fixed by the sources, so the variable impl chooses one at  *)
(* Init and every operation of the two classes dispatches on it.           *)
(*                                                                         *)
(* JavaScript strings are sequences of one-character strings.              *)
(***************************************************************************)
EXTENDS Integers, Sequences, FiniteSets, TLC

VARIABLES
    impl,            \* "part_000" or "part_001": the loaded client script
    \* ---- a call of a pure function of IntelliMarketAPI
    fnCall,          \* [fn, arg]: the function called and its argument
    fnResult,        \* its return value, NoResult before the call returns
    \* ---- IntelliMarketApp: the recent-history list and its persisted blob
    storage,         \* localStorage item 'intelligmarket_recent'
    appState,        \* "unloaded", "running", or "crashed" (constructor threw)
    recentAnalyses,  \* this.recentAnalyses, a JavaScript value
    clock,           \* new Date(): advances with every entry that is created
    lastAdd,         \* how the last addToRecentAnalyses call ended
    \* ---- IntelliMarketAPI: one call of a domain operation through makeRequest
    request,         \* what was handed to fetch, NoRequest before the call
    reqState,        \* "idle", "pending", "fulfilled" or "rejected"
    reqOutcome,      \* the value makeRequest returned or the error it threw
    elapsed,         \* milliseconds since fetch was called
    \* ---- IntelliMarketApp: handlers, progress display, symbol validation
    ops,             \* handler invocations suspended at their await
    opCount,         \* analysis requests issued by the handlers so far
    tracker,         \* this.progress, a ProgressTracker
    resultsHidden,   \* 'hidden' class of results-area
    errorMessage,    \* the message showError wrote last, <<>> if none
    validationTimeout, \* the closure variable of setupSymbolValidation
    symbolValue,     \* history: the symbol the 'input' listener read last,
                     \* recorded by SymbolTyped
    valTimers,       \* scheduled validation timeouts: [id, symbol]
    valInFlight,     \* validation callbacks suspended at validateSymbol
    valSeq,          \* the last validation timer id handed out
    valSent,         \* /validate requests issued so far
    validationDiv    \* text and class of symbol-validation

pureVars == <<fnCall, fnResult>>
recentVars == <<storage, appState, recentAnalyses, clock, lastAdd>>
reqVars == <<request, reqState, reqOutcome, elapsed>>
handlerVars == <<ops, opCount, tracker, resultsHidden, errorMessage>>
validationVars ==
    <<validationTimeout, symbolValue, valTimers, valInFlight, valSeq, valSent, validationDiv>>
uiVars == <<handlerVars, validationVars>>
vars == <<impl, pureVars, recentVars, reqVars, uiVars>>

Impls == {"part_000", "part_001"}

\* ------------------------------------------------------------------------
\* Bounds
\* ------------------------------------------------------------------------
MaxSymLen == 6       \* longest symbol string passed to isValidSymbol
MaxListLen == 6      \* longest list passed to validateSymbolList
MaxBlobLen == 12     \* longest list found in the persisted blob at startup
MaxAdds == 11        \* addToRecentAnalyses calls in one run
MaxClockTicks == 4   \* clock steps observed while a request is pending
Scale == 10          \* progress is counted in 1/Scale percent
MaxOps == 2          \* analysis requests issued in one run
MaxInputs == 2       \* validation timers scheduled in one run
MaxStarts == 2       \* SpecUI: requests and validation timers started in one run
MaxTextLen == 5      \* longest text passed to parseSymbolList
MaxLines == 3        \* most lines of a text passed to formatMarkdown
MaxBodyLines == 3    \* most lines after the separator in a call of parseTable

\* ------------------------------------------------------------------------
\* Strings
\* ------------------------------------------------------------------------
UpperLetters == {"A", "B"}
LowerLetters == {"a"}
Digits == {"1"}
Space == " "
Comma == ","

BoundedSeq(S, n) == UNION {[1..k -> S] : k \in 0..n}

\* String.prototype.toUpperCase, one character
toUpperChar(c) == CASE c = "a" -> "A" [] c = "b" -> "B" [] OTHER -> c

\* String.prototype.toUpperCase
toUpperCase(s) == [i \in 1..Len(s) |-> toUpperChar(s[i])]

NoResult == [none |-> TRUE]

\* String.prototype.split(d): the parts between the occurrences of d
splitOn(s, d) ==
    LET isDelimiter(k) == s[k] = d
        at == SelectSeq([k \in 1..Len(s) |-> k], isDelimiter)
    IN [i \in 1..(Len(at) + 1) |->
            SubSeq(s, IF i = 1 THEN 1 ELSE at[i - 1] + 1,
                      IF i = Len(at) + 1 THEN Len(s) ELSE at[i] - 1)]

\* ------------------------------------------------------------------------
\* IntelliMarketAPI: symbol checks
\* ------------------------------------------------------------------------
\* the regular expression with its upper length bound off by one: {1,6}
matchesSymbolRegex_upTo6(s) ==
    /\ Len(s) >= 1
    /\ Len(s) <= 6
    /\ \A i \in 1..Len(s) : s[i] \in UpperLetters

\* RegExp /^[A-Z]{1,5}$/ .test(s)
matchesSymbolRegex(s) ==
    /\ Len(s) >= 1
    /\ Len(s) <= 5
    /\ \A i \in 1..Len(s) : s[i] \in UpperLetters

\* part_000: /^[A-Z]{1,5}$/.test(symbol.toUpperCase())
isValidSymbol_000(symbol) == matchesSymbolRegex(toUpperCase(symbol))

\* part_001: /^[A-Z]{1,5}$/.test(symbol)
isValidSymbol_001(symbol) == matchesSymbolRegex(symbol)

isValidSymbol(i, symbol) ==
    IF i = "part_000" THEN isValidSymbol_000(symbol) ELSE isValidSymbol_001(symbol)

\* part_000 validateSymbolList: the error lists every invalid symbol
validateSymbolList_000(symbols) ==
    IF Len(symbols) < 2
    THEN [valid |-> FALSE, error |-> [text |-> "Please enter at least 2 symbols", names |-> <<>>]]
    ELSE IF Len(symbols) > 5
    THEN [valid |-> FALSE, error |-> [text |-> "Maximum 5 symbols allowed", names |-> <<>>]]
    ELSE LET bad(s) == ~isValidSymbol_000(s)
             invalidSymbols == SelectSeq(symbols, bad)   \* Array.prototype.filter
         IN IF Len(invalidSymbols) > 0
            THEN [valid |-> FALSE, error |-> [text |-> "Invalid symbols: ", names |-> invalidSymbols]]
            ELSE [valid |-> TRUE]

\* part_001 validateSymbolList: the loop returns at the first invalid symbol
validateSymbolList_001(symbols) ==
    IF Len(symbols) < 2
    THEN [valid |-> FALSE, error |-> [text |-> "At least 2 symbols required for comparison", names |-> <<>>]]
    ELSE IF Len(symbols) > 5
    THEN [valid |-> FALSE, error |-> [text |-> "Maximum 5 symbols allowed for comparison", names |-> <<>>]]
    ELSE LET bad == {k \in 1..Len(symbols) : ~isValidSymbol_001(symbols[k])}
         IN IF bad # {}
            THEN LET first == CHOOSE k \in bad : \A j \in bad : k <= j
                 IN [valid |-> FALSE,
                     error |-> [text |-> "Invalid symbol format: (1-5 letters only)",
                                names |-> <<symbols[first]>>]]
            ELSE [valid |-> TRUE]

validateSymbolList(i, symbols) ==
    IF i = "part_000" THEN validateSymbolList_000(symbols) ELSE validateSymbolList_001(symbols)

\* ------------------------------------------------------------------------
\* IntelliMarketApp: recent-history list
\* ------------------------------------------------------------------------
RecentLimit == 10    \* this.recentAnalyses.slice(0, 10)

\* JavaScript values that JSON.parse can return for the persisted blob
JNull == [t |-> "null"]
JNumber == [t |-> "number"]
JObject == [t |-> "object"]
JEmptyString == [t |-> "string", len |-> 0]
JString == [t |-> "string", len |-> 3]
JList(items) == [t |-> "list", items |-> items]

IsList(v) == v.t = "list"

\* the content of localStorage under the key 'intelligmarket_recent':
\* getItem throws, returns null, or returns a text; a text is empty,
\* is rejected by JSON.parse, or parses to a value
StorageInaccessible == [kind |-> "inaccessible"]
StorageMissing == [kind |-> "missing"]
StorageEmptyText == [kind |-> "text", parses |-> FALSE, empty |-> TRUE]
StorageGarbage == [kind |-> "text", parses |-> FALSE, empty |-> FALSE]
StorageJson(v) == [kind |-> "text", parses |-> TRUE, empty |-> FALSE, value |-> v]

\* an entry written by an earlier session, the i-th of its list (newest first)
OldEntry(i) == [query |-> "OLD", type |-> "stock", analysisType |-> "quick", timestamp |-> 1 - i]
OldList(k) == [i \in 1..k |-> OldEntry(i)]

Blobs ==
    {StorageInaccessible, StorageMissing, StorageEmptyText, StorageGarbage}
    \cup {StorageJson(v) : v \in {JNull, JNumber, JObject, JEmptyString, JString}}
    \cup {StorageJson(JList(OldList(k))) : k \in 0..MaxBlobLen}

\* loadRecentAnalyses: saved ? JSON.parse(saved) : [], and [] when
\* getItem or JSON.parse throws
loadRecentAnalyses(st) ==
    IF st.kind # "text" THEN JList(<<>>)
    ELSE IF st.empty THEN JList(<<>>)
    ELSE IF ~st.parses THEN JList(<<>>)
    ELSE st.value

\* renderRecentAnalyses throws a TypeError when it reads .length of null,
\* or calls .map on a value with a length other than 0 that has no map
renderRecentAnalysesThrows(v) ==
    CASE v.t = "null" -> TRUE
      [] v.t = "list" -> FALSE
      [] v.t = "string" -> v.len # 0
      [] OTHER -> TRUE

\* Array.prototype.slice(0, n)
slice0(s, n) == SubSeq(s, 1, IF Len(s) < n THEN Len(s) ELSE n)

\* addToRecentAnalyses: unshift, slice(0, 10), save, render.
\* unshift throws a TypeError when this.recentAnalyses is not an array;
\* saveRecentAnalyses swallows a failing setItem and leaves the blob as it is.
addToRecentAnalyses(recent, st, query, type, analysisType, now, setItemOk) ==
    IF ~IsList(recent)
    THEN [threw |-> TRUE, recent |-> recent, storage |-> st]
    ELSE LET analysis == [query |-> query, type |-> type,
                          analysisType |-> analysisType, timestamp |-> now]
             kept == JList(slice0(<<analysis>> \o recent.items, RecentLimit))
         IN [threw |-> FALSE,
             recent |-> kept,
             storage |-> IF setItemOk THEN StorageJson(kept) ELSE st]

RecentIdle ==
    /\ storage = StorageMissing
    /\ appState = "unloaded"
    /\ recentAnalyses = JList(<<>>)
    /\ clock = 0
    /\ lastAdd = "none"

\* ------------------------------------------------------------------------
\* IntelliMarketAPI: makeRequest and the domain operations
\* ------------------------------------------------------------------------
timeout == 300000    \* part_001: this.timeout = 300000 (5 minutes)

\* String.prototype.trim
RECURSIVE trimStart(_)
trimStart(s) == IF s # <<>> /\ Head(s) = Space THEN trimStart(Tail(s)) ELSE s

RECURSIVE trimEnd(_)
trimEnd(s) ==
    IF s # <<>> /\ s[Len(s)] = Space THEN trimEnd(SubSeq(s, 1, Len(s) - 1)) ELSE s

trim(s) == trimEnd(trimStart(s))

\* encodeURIComponent, one character
encodeURIChar(c) == IF c = Space THEN "%20" ELSE IF c = Comma THEN "%2C" ELSE c

encodeURIComponent(s) == [k \in 1..Len(s) |-> encodeURIChar(s[k])]

NoRequest == [none |-> TRUE]

\* part_000 makeRequest: { headers, ...options }
config_000(options) ==
    [headers |-> "Content-Type: application/json"] @@ options

\* part_001 makeRequest: { timeout: this.timeout, headers, ...options }
config_001(options) ==
    [timeout |-> timeout, headers |-> "Content-Type: application/json"] @@ options

\* the domain operations of part_000: endpoint and fetch options
operation_000(op, arg, analysisType) ==
    CASE op = "validateSymbol" ->
           [endpoint |-> <<"/validate/symbol/", toUpperCase(arg)>>, options |-> <<>>]
      [] op = "analyzeStock" ->
           [endpoint |-> <<"/analyze/stock">>,
            options |-> [method |-> "POST", body |-> [symbol |-> toUpperCase(arg), type |-> analysisType]]]
      [] op = "compareStocks" ->
           LET nonEmpty(x) == x # <<>>
               cleanSymbols == SelectSeq([k \in 1..Len(arg) |-> toUpperCase(trim(arg[k]))], nonEmpty)
           IN [endpoint |-> <<"/analyze/comparison">>,
               options |-> [method |-> "POST", body |-> [symbols |-> cleanSymbols]]]
      [] op = "marketResearch" ->
           [endpoint |-> <<"/analyze/research">>,
            options |-> [method |-> "POST", body |-> [topic |-> trim(arg)]]]
      [] op = "customQuery" ->
           [endpoint |-> <<"/analyze/query">>,
            options |-> [method |-> "POST", body |-> [query |-> trim(arg)]]]
      [] op = "analyzeStockAsync" ->
           [endpoint |-> <<"/analyze/async/stock">>,
            options |-> [method |-> "POST", body |-> [symbol |-> toUpperCase(arg), type |-> analysisType]]]

\* the domain operations of part_001: the arguments are sent as given
operation_001(op, arg, analysisType) ==
    CASE op = "validateSymbol" ->
           [endpoint |-> <<"/validate/symbol/", encodeURIComponent(arg)>>, options |-> <<>>]
      [] op = "analyzeStock" ->
           [endpoint |-> <<"/analyze/stock">>,
            options |-> [method |-> "POST", body |-> [symbol |-> arg, type |-> analysisType]]]
      [] op = "compareStocks" ->
           [endpoint |-> <<"/analyze/comparison">>,
            options |-> [method |-> "POST", body |-> [symbols |-> arg]]]
      [] op = "marketResearch" ->
           [endpoint |-> <<"/analyze/research">>,
            options |-> [method |-> "POST", body |-> [topic |-> arg]]]
      [] op = "customQuery" ->
           [endpoint |-> <<"/analyze/query">>,
            options |-> [method |-> "POST", body |-> [query |-> arg]]]
      [] op = "analyzeStockAsync" ->
           [endpoint |-> <<"/analyze/async/stock">>,
            options |-> [method |-> "POST", body |-> [symbol |-> arg, type |-> analysisType]]]

\* what makeRequest hands to fetch for a domain operation
fetchCall(i, op, arg, analysisType) ==
    LET o == IF i = "part_000" THEN operation_000(op, arg, analysisType)
             ELSE operation_001(op, arg, analysisType)
    IN [op |-> op,
        url |-> <<"http://127.0.0.1:5000/api">> \o o.endpoint,
        config |-> IF i = "part_000" THEN config_000(o.options) ELSE config_001(o.options)]

\* HTTP responses: status, statusText and body
Statuses == {200, 404, 500}
statusText(status) ==
    CASE status = 200 -> "OK" [] status = 404 -> "Not Found" [] OTHER -> "Internal Server Error"

\* response.ok
ok(status) == status >= 200 /\ status <= 299

BodyAbsent == [kind |-> "absent"]
BodyUnparseable == [kind |-> "unparseable"]
BodyJson(v) == [kind |-> "json", value |-> v]
JErrorObject(msg) == [t |-> "object", error |-> msg]

Bodies ==
    {BodyAbsent, BodyUnparseable}
    \cup {BodyJson(v) : v \in {JNull, JNumber, JObject,
                               JErrorObject("symbol not found"), JErrorObject("")}}

Error(name, message) == [name |-> name, message |-> message]

\* `HTTP ${response.status}: ${response.statusText}`
httpMessage(status) == <<"HTTP ", status, ": ", statusText(status)>>

\* the body of the try block of makeRequest, once fetch resolved:
\* what it returns or throws
tryBody(status, body) ==
    IF ~ok(status)
    THEN \* errorData = await response.json().catch(() => ({}))
         LET errorData == IF body.kind = "json" THEN body.value ELSE JObject
         IN IF errorData.t = "null"
            THEN [threw |-> TRUE,
                  error |-> Error("TypeError", <<"Cannot read properties of null (reading 'error')">>)]
            ELSE IF errorData.t = "object" /\ "error" \in DOMAIN errorData /\ errorData.error # ""
            THEN [threw |-> TRUE, error |-> Error("Error", <<errorData.error>>)]
            ELSE [threw |-> TRUE, error |-> Error("Error", httpMessage(status))]
    ELSE \* return await response.json()
         IF body.kind = "json"
         THEN [threw |-> FALSE, value |-> body.value]
         ELSE [threw |-> TRUE, error |-> Error("SyntaxError", <<"Unexpected end of JSON input">>)]

\* the catch block of makeRequest: part_001 rewrites an AbortError,
\* part_000 logs; both rethrow
catchBlock(i, error) ==
    IF i = "part_001" /\ error.name = "AbortError"
    THEN Error("Error", <<"Request timeout - analysis is taking longer than expected">>)
    ELSE error

\* makeRequest after fetch settled; r is the response, or the error fetch
\* rejected with
makeRequest(i, r) ==
    LET t == IF r.rejected THEN [threw |-> TRUE, error |-> r.error]
             ELSE tryBody(r.status, r.body)
    IN IF t.threw
       THEN [state |-> "rejected", error |-> catchBlock(i, t.error)]
       ELSE [state |-> "fulfilled", value |-> t.value]

\* part_000 parseSymbolList: trim, uppercase, keep the non-empty valid ones
parseSymbolList_000(input) ==
    LET parts == splitOn(input, Comma)
        keep(x) == x # <<>> /\ isValidSymbol_000(x)
    IN SelectSeq([k \in 1..Len(parts) |-> toUpperCase(trim(parts[k]))], keep)

\* part_001 parseSymbolList: trim, uppercase, keep the non-empty ones
parseSymbolList_001(symbolsText) ==
    LET parts == splitOn(symbolsText, Comma)
        keep(x) == Len(x) > 0
    IN SelectSeq([k \in 1..Len(parts) |-> toUpperCase(trim(parts[k]))], keep)

parseSymbolList(i, text) ==
    IF i = "part_000" THEN parseSymbolList_000(text) ELSE parseSymbolList_001(text)

\* formatError: the message of the error
formatError(i, error) ==
    IF error.message # <<>> THEN error.message
    ELSE <<"An unexpected error occurred. Please try again.">>

\* ------------------------------------------------------------------------
\* ProgressTracker
\* ------------------------------------------------------------------------
\* A tracker value holds the fields of the object (currentProgress,
\* intervalId / progressInterval), the elements it writes (hidden: the
\* 'hidden' class of loading-area; shown: the width of progress-fill and the
\* number in progress-text), the timers it created (intervals: the live
\* setInterval timers; hideTimers: the pending setTimeout(hide) calls;
\* timerSeq: the last timer id handed out) and lastCall, the method of the
\* tracker that ran last.  Percentages are counted in 1/Scale percent.
NoTimer == 0

NewTracker ==
    [currentProgress |-> 0, intervalId |-> NoTimer, hidden |-> TRUE, shown |-> 0,
     intervals |-> {}, hideTimers |-> 0, timerSeq |-> 0, lastCall |-> "new"]

\* Math.max(0, Math.min(100, percent))
clampPercent(x) == IF x < 0 THEN 0 ELSE IF x > 100 * Scale THEN 100 * Scale ELSE x

\* part_000 setProgress
setProgress_000(p, percent) ==
    [p EXCEPT !.currentProgress = clampPercent(percent), !.shown = clampPercent(percent)]

\* setInterval(callback, 500): a new timer id
setIntervalIn(p) ==
    [p EXCEPT !.timerSeq = p.timerSeq + 1,
              !.intervalId = p.timerSeq + 1,
              !.intervals = p.intervals \cup {p.timerSeq + 1}]

\* if (this.intervalId) { clearInterval(this.intervalId); this.intervalId = null }
clearIntervalIn(p) ==
    IF p.intervalId # NoTimer
    THEN [p EXCEPT !.intervals = p.intervals \ {p.intervalId}, !.intervalId = NoTimer]
    ELSE p

\* part_000 show: un-hide, setProgress(0), startSimulatedProgress()
show_000(p) ==
    LET a == setProgress_000([p EXCEPT !.hidden = FALSE], 0)
        b == setIntervalIn([a EXCEPT !.currentProgress = 0])
    IN [b EXCEPT !.lastCall = "show"]

\* part_001 show: un-hide, currentProgress = 0, updateProgress(0),
\* startProgressAnimation()
show_001(p) ==
    LET a == [p EXCEPT !.hidden = FALSE, !.currentProgress = 0, !.shown = 0]
    IN [setIntervalIn(a) EXCEPT !.lastCall = "show"]

show(i, p) == IF i = "part_000" THEN show_000(p) ELSE show_001(p)

\* hide (both copies): hide loading-area, stop the interval the field names
hide(i, p) == [clearIntervalIn([p EXCEPT !.hidden = TRUE]) EXCEPT !.lastCall = "hide"]

\* part_000 complete: setProgress(100); setTimeout(() => this.hide(), 500)
complete_000(p) ==
    [setProgress_000(p, 100 * Scale) EXCEPT !.hideTimers = p.hideTimers + 1,
                                            !.lastCall = "complete"]

\* part_001 complete: clear the interval, updateProgress(100), setTimeout(hide)
complete_001(p) ==
    [clearIntervalIn(p) EXCEPT !.shown = 100 * Scale,
                               !.hideTimers = p.hideTimers + 1,
                               !.lastCall = "complete"]

complete(i, p) == IF i = "part_000" THEN complete_000(p) ELSE complete_001(p)

\* part_000 interval callback: below 90, add max(1, (90 - current) * 0.1)
tick_000(p) ==
    IF p.currentProgress < 90 * Scale
    THEN LET tenth == (90 * Scale - p.currentProgress) \div 10
             increment == IF tenth > Scale THEN tenth ELSE Scale
         IN setProgress_000(p, p.currentProgress + increment)
    ELSE p

\* the interval callback of part_001 without its cap at 90
tick_001_uncapped(p, r) ==
    IF p.currentProgress < 90 * Scale
    THEN [p EXCEPT !.currentProgress = p.currentProgress + r,
                   !.shown = p.currentProgress + r]
    ELSE p

\* part_001 interval callback: below 90, add Math.random() * 15 (here r),
\* cap at 90, updateProgress
tick_001(p, r) ==
    IF p.currentProgress < 90 * Scale
    THEN LET raised == p.currentProgress + r
             capped == IF raised > 90 * Scale THEN 90 * Scale ELSE raised
         IN [p EXCEPT !.currentProgress = capped, !.shown = capped]
    ELSE p

tick(i, p, r) == IF i = "part_000" THEN tick_000(p) ELSE tick_001(p, r)

\* Math.random() * 15: values in [0, 15)
RandomIncrements == {0, 15 * Scale - 1}

\* the application before any UI event
UIIdle ==
    /\ ops = {}
    /\ opCount = 0
    /\ tracker = NewTracker
    /\ resultsHidden = TRUE
    /\ errorMessage = <<>>
    /\ validationTimeout = NoTimer
    /\ symbolValue = <<>>
    /\ valTimers = {}
    /\ valInFlight = {}
    /\ valSeq = 0
    /\ valSent = 0
    /\ validationDiv = [text |-> <<>>, class |-> "symbol-validation"]

ReqIdle ==
    /\ request = NoRequest
    /\ reqState = "idle"
    /\ reqOutcome = NoResult
    /\ elapsed = 0

\* ------------------------------------------------------------------------
\* Calls of the pure functions
\* ------------------------------------------------------------------------
SymbolChars == UpperLetters \cup LowerLetters \cup Digits
SymbolArgs == BoundedSeq(SymbolChars, MaxSymLen)

\* members of the lists handed to validateSymbolList
ListMembers == { <<"A">>, <<"a", "B">>, <<"A", "1">>, <<"A", "B", "A", "B", "A", "B">> }
ListArgs == BoundedSeq(ListMembers, MaxListLen)

PureInit ==
    /\ impl \in Impls
    /\ UIIdle
    /\ RecentIdle
    /\ ReqIdle
    /\ fnCall \in [fn : {"isValidSymbol"}, arg : SymbolArgs]
                  \cup [fn : {"validateSymbolList"}, arg : ListArgs]
    /\ fnResult = NoResult

CallIsValidSymbol ==
    /\ fnCall.fn = "isValidSymbol"
    /\ fnResult = NoResult
    /\ fnResult' = [value |-> isValidSymbol(impl, fnCall.arg)]
    /\ UNCHANGED <<impl, fnCall, recentVars, reqVars, uiVars>>

CallValidateSymbolList ==
    /\ fnCall.fn = "validateSymbolList"
    /\ fnResult = NoResult
    /\ fnResult' = [value |-> validateSymbolList(impl, fnCall.arg)]
    /\ UNCHANGED <<impl, fnCall, recentVars, reqVars, uiVars>>

PureNext ==
    \/ CallIsValidSymbol
    \/ CallValidateSymbolList

SpecPure == PureInit /\ [][PureNext]_vars

\* ------------------------------------------------------------------------
\* The recent-history list: startup and addToRecentAnalyses
\* ------------------------------------------------------------------------
PureIdle ==
    /\ fnCall = [fn |-> "none", arg |-> <<>>]
    /\ fnResult = NoResult

\* what the handlers pass to addToRecentAnalyses: (query, type, analysisType)
RecentInputs == { <<"AAPL", "stock", "quick">>, <<"AI chips", "research", "null">> }

RecentInit ==
    /\ impl \in Impls
    /\ UIIdle
    /\ PureIdle
    /\ ReqIdle
    /\ storage \in Blobs
    /\ appState = "unloaded"
    /\ recentAnalyses = JNull
    /\ clock = 0
    /\ lastAdd = "none"

\* new IntelliMarketApp(): loadRecentAnalyses, initializeEventListeners,
\* renderRecentAnalyses; a TypeError in renderRecentAnalyses leaves the
\* constructor after the listeners were registered
Startup ==
    /\ appState = "unloaded"
    /\ recentAnalyses' = loadRecentAnalyses(storage)
    /\ appState' = IF renderRecentAnalysesThrows(recentAnalyses') THEN "crashed" ELSE "running"
    /\ UNCHANGED <<impl, pureVars, reqVars, uiVars, storage, clock, lastAdd>>

\* this.addToRecentAnalyses(query, type, analysisType), called by a handler
\* whose request succeeded
AddToRecentAnalyses ==
    /\ appState # "unloaded"
    /\ clock < MaxAdds
    /\ \E in \in RecentInputs, setItemOk \in BOOLEAN :
         LET r == addToRecentAnalyses(recentAnalyses, storage, in[1], in[2], in[3],
                                      clock + 1, setItemOk)
         IN /\ recentAnalyses' = r.recent
            /\ storage' = r.storage
            /\ lastAdd' = IF r.threw THEN "threw" ELSE "added"
    /\ clock' = clock + 1
    /\ UNCHANGED <<impl, pureVars, reqVars, uiVars, appState>>

RecentNext ==
    \/ Startup
    \/ AddToRecentAnalyses

SpecRecent == RecentInit /\ [][RecentNext]_vars

\* ------------------------------------------------------------------------
\* One call of a domain operation
\* ------------------------------------------------------------------------
StringOps == {"validateSymbol", "analyzeStock", "marketResearch", "customQuery", "analyzeStockAsync"}
StringOpArgs == { <<"a">>, <<"A", "B">>, <<Space, "a", Space>> }
ListOpArgs == { << <<"A">>, <<"a">> >>, << <<Space, "B">>, <<"A">> >> }

ClockStep == timeout \div 2

ReqInit ==
    /\ impl \in Impls
    /\ UIIdle
    /\ PureIdle
    /\ RecentIdle
    /\ ReqIdle

\* a domain operation calls makeRequest, which calls fetch(url, config) and
\* awaits it
Send ==
    /\ reqState = "idle"
    /\ \E op \in StringOps \cup {"compareStocks"} :
         \E arg \in (IF op = "compareStocks" THEN ListOpArgs ELSE StringOpArgs) :
            \* analysisType = 'quick' / 'comprehensive' are the defaults
            request' = fetchCall(impl, op, arg,
                                 IF op = "analyzeStockAsync" THEN "comprehensive" ELSE "quick")
    /\ reqState' = "pending"
    /\ UNCHANGED <<impl, pureVars, recentVars, uiVars, reqOutcome, elapsed>>

\* time passes while fetch is pending.  fetch takes no timeout from its
\* init dictionary and neither client passes an AbortSignal, so the passing
\* of time settles nothing.
ClockTick ==
    /\ reqState = "pending"
    /\ elapsed < MaxClockTicks * ClockStep
    /\ elapsed' = elapsed + ClockStep
    /\ UNCHANGED <<impl, pureVars, recentVars, uiVars, request, reqState, reqOutcome>>

\* the backend answers
Respond ==
    /\ reqState = "pending"
    /\ \E status \in Statuses, body \in Bodies :
         LET r == makeRequest(impl, [rejected |-> FALSE, status |-> status, body |-> body])
         IN /\ reqState' = r.state
            /\ reqOutcome' = [response |-> [status |-> status, body |-> body], result |-> r]
    /\ UNCHANGED <<impl, pureVars, recentVars, uiVars, request, elapsed>>

\* fetch rejects: connection refused, DNS failure
NetworkError ==
    /\ reqState = "pending"
    /\ LET r == makeRequest(impl, [rejected |-> TRUE,
                                   error |-> Error("TypeError", <<"Failed to fetch">>)])
       IN /\ reqState' = r.state
          /\ reqOutcome' = [response |-> NoResult, result |-> r]
    /\ UNCHANGED <<impl, pureVars, recentVars, uiVars, request, elapsed>>

ReqNext ==
    \/ Send
    \/ ClockTick
    \/ Respond
    \/ NetworkError

SpecRequest == ReqInit /\ [][ReqNext]_vars

\* ------------------------------------------------------------------------
\* IntelliMarketApp: the handlers, the progress display, symbol validation
\* ------------------------------------------------------------------------
QueryPreview == 50   \* query.substring(0, 50)

\* contents of the input fields when an event is dispatched
StockInputs ==
    { <<>>, <<Space>>, <<Space, "a">>, <<"A", "1">>, <<"A", "B", "A", "B", "A", "B">> }
ComparisonInputs ==
    { <<>>, <<"A">>, <<"A", Comma, "a">>, <<"A", Comma, Space, "A", "1">>,
      <<"A", Comma, "B", Comma, "A", "1">>,
      <<"A", Comma, "B", Comma, "A", Comma, "B", Comma, "A", Comma, "B">> }
TextInputs == { <<>>, <<Space>>, <<"a">> }
Depths == {"quick", "comprehensive"}

\* answers of the backend to an analysis request, and fetch failing
AnalysisResponses ==
    { [rejected |-> FALSE, status |-> 200, body |-> BodyJson(JObject)],
      [rejected |-> FALSE, status |-> 200, body |-> BodyJson(JNull)],
      [rejected |-> FALSE, status |-> 500, body |-> BodyJson(JErrorObject("symbol not found"))],
      [rejected |-> TRUE, error |-> Error("TypeError", <<"Failed to fetch">>)] }

\* answers of the backend to GET /validate/symbol/{symbol}
JValidation(valid) == [t |-> "object", valid |-> valid]
ValidationResponses ==
    { [rejected |-> FALSE, status |-> 200, body |-> BodyJson(JValidation(TRUE))],
      [rejected |-> FALSE, status |-> 200, body |-> BodyJson(JValidation(FALSE))],
      [rejected |-> FALSE, status |-> 200, body |-> BodyJson(JNull)],
      [rejected |-> TRUE, error |-> Error("TypeError", <<"Failed to fetch">>)] }

\* showResults reads data.analysis_type: a TypeError when data is null
showResultsThrows(data) == data.t = "null"

UIInit ==
    /\ impl \in Impls
    /\ PureIdle
    /\ ReqIdle
    /\ UIIdle
    /\ storage = StorageMissing
    /\ appState = "running"
    /\ recentAnalyses = JList(<<>>)
    /\ clock = 0
    /\ lastAdd = "none"

\* a handler returns after this.showError(message)
ShowValidationError(message) ==
    /\ errorMessage' = message
    /\ UNCHANGED <<impl, pureVars, recentVars, reqVars, validationVars,
                   ops, opCount, tracker, resultsHidden>>

\* a handler calls this.progress.show(...) and suspends at its await of the
\* api call; part_001's show also hides results-area.  interval is the
\* setInterval timer this call of show() started.
StartOperation(handler, apiOp, arg, analysisType, title, recent) ==
    /\ opCount < MaxOps
    /\ tracker' = show(impl, tracker)
    /\ resultsHidden' = (IF impl = "part_001" THEN TRUE ELSE resultsHidden)
    /\ opCount' = opCount + 1
    /\ ops' = ops \cup {[id |-> opCount + 1, handler |-> handler, title |-> title,
                         recent |-> recent,
                         interval |-> show(impl, tracker).intervalId,
                         request |-> fetchCall(impl, apiOp, arg, analysisType)]}
    /\ UNCHANGED <<impl, pureVars, recentVars, reqVars, validationVars, errorMessage>>

\* handleStockAnalysis up to its await
handleStockAnalysisOn(input, analysisType) ==
        LET symbol == toUpperCase(trim(input))
        IN IF symbol = <<>>
           THEN ShowValidationError(<<"Please enter a stock symbol">>)
           ELSE IF ~isValidSymbol(impl, symbol)
           THEN ShowValidationError(<<"Please enter a valid stock symbol (1-5 letters)">>)
           ELSE StartOperation("stock", "analyzeStock", symbol, analysisType,
                               <<symbol, " Analysis">>, <<symbol, "stock", analysisType>>)

\* handleStockComparison up to its await
handleStockComparisonOn(input) ==
        LET symbolsText == trim(input)
            symbols == parseSymbolList(impl, symbolsText)
            validation == validateSymbolList(impl, symbols)
        IN IF symbolsText = <<>>
           THEN ShowValidationError(<<"Please enter stock symbols to compare">>)
           ELSE IF ~validation.valid
           THEN ShowValidationError(<<validation.error.text, validation.error.names>>)
           ELSE StartOperation("comparison", "compareStocks", symbols, "null",
                               <<symbols, " Comparison">>, <<symbols, "comparison", "null">>)

\* handleMarketResearch up to its await
handleMarketResearchOn(input) ==
        LET topic == trim(input)
        IN IF topic = <<>>
           THEN ShowValidationError(<<"Please enter a research topic">>)
           ELSE StartOperation("research", "marketResearch", topic, "null",
                               <<"Market Research: ", topic>>, <<topic, "research", "null">>)

\* handleCustomQuery up to its await
handleCustomQueryOn(input) ==
        LET query == trim(input)
        IN IF query = <<>>
           THEN ShowValidationError(<<"Please enter your question">>)
           ELSE StartOperation("query", "customQuery", query, "null",
                               <<"Custom Query Results">>,
                               <<slice0(query, QueryPreview) \o <<"...">>, "query", "null">>)

\* a click or Enter key press, with the content of the form's fields
handleStockAnalysis ==
    \E input \in StockInputs, analysisType \in Depths :
        handleStockAnalysisOn(input, analysisType)

handleStockComparison == \E input \in ComparisonInputs : handleStockComparisonOn(input)

handleMarketResearch == \E input \in TextInputs : handleMarketResearchOn(input)

handleCustomQuery == \E input \in TextInputs : handleCustomQueryOn(input)

\* a handler resumes after its await.  Fulfilled: progress.complete(),
\* showResults, addToRecentAnalyses.  Rejected, or an exception in one of
\* these calls: the catch block runs progress.hide() and showError.
HandlerResumesOn(o, response, setItemOk) ==
        LET r == makeRequest(impl, response)
            completed == complete(impl, tracker)
            added == addToRecentAnalyses(recentAnalyses, storage, o.recent[1], o.recent[2],
                                         o.recent[3], clock + 1, setItemOk)
        IN /\ ops' = ops \ {o}
           /\ IF r.state = "rejected"
              THEN /\ tracker' = hide(impl, tracker)
                   /\ errorMessage' = formatError(impl, r.error)
                   /\ UNCHANGED <<resultsHidden, recentVars>>
              ELSE IF showResultsThrows(r.value)
              THEN /\ tracker' = hide(impl, completed)
                   /\ errorMessage' = <<"Cannot read properties of null (reading 'analysis_type')">>
                   /\ UNCHANGED <<resultsHidden, recentVars>>
              ELSE IF added.threw
              THEN /\ tracker' = hide(impl, completed)
                   /\ resultsHidden' = FALSE
                   /\ errorMessage' = <<"this.recentAnalyses.unshift is not a function">>
                   /\ lastAdd' = "threw"
                   /\ UNCHANGED <<storage, appState, recentAnalyses, clock>>
              ELSE /\ tracker' = completed
                   /\ resultsHidden' = FALSE
                   /\ recentAnalyses' = added.recent
                   /\ storage' = added.storage
                   /\ clock' = clock + 1
                   /\ lastAdd' = "added"
                   /\ UNCHANGED <<errorMessage, appState>>
           /\ UNCHANGED <<impl, pureVars, reqVars, validationVars, opCount>>

HandlerResumes ==
    \E o \in ops, response \in AnalysisResponses, setItemOk \in BOOLEAN :
        HandlerResumesOn(o, response, setItemOk)

\* the timeout set by complete() fires: this.hide()
HideTimerFires ==
    /\ tracker.hideTimers > 0
    /\ tracker' = hide(impl, [tracker EXCEPT !.hideTimers = tracker.hideTimers - 1])
    /\ UNCHANGED <<impl, pureVars, recentVars, reqVars, validationVars,
                   ops, opCount, resultsHidden, errorMessage>>

\* a live interval timer fires
IntervalFires ==
    /\ tracker.intervals # {}
    /\ \E r \in RandomIncrements : tracker' = tick(impl, tracker, r)
    /\ UNCHANGED <<impl, pureVars, recentVars, reqVars, validationVars,
                   ops, opCount, resultsHidden, errorMessage>>

\* a clearTimeout that cancels nothing
clearValidationTimeout_kept(timers, id) == timers

\* clearTimeout(validationTimeout)
clearValidationTimeout(timers, id) == {t \in timers : t.id # id}

\* the 'input' listener of setupSymbolValidation (the history variable
\* symbolValue is left to the action that dispatches the event)
SymbolInputOn(input) ==
        LET symbol == toUpperCase(trim(input))
            cleared == IF validationTimeout # NoTimer
                       THEN clearValidationTimeout(valTimers, validationTimeout)
                       ELSE valTimers
        IN /\ IF symbol = <<>>
              THEN /\ validationDiv' = [text |-> <<>>, class |-> "symbol-validation"]
                   /\ valTimers' = cleared
                   /\ UNCHANGED <<validationTimeout, valSeq>>
              ELSE IF ~isValidSymbol(impl, symbol)
              THEN /\ validationDiv' = [text |-> <<"Invalid format (1-5 letters only)">>,
                                        class |-> "symbol-validation invalid"]
                   /\ valTimers' = cleared
                   /\ UNCHANGED <<validationTimeout, valSeq>>
              ELSE /\ valSeq < MaxInputs
                   /\ valSeq' = valSeq + 1
                   /\ validationTimeout' = valSeq + 1
                   /\ valTimers' = cleared \cup {[id |-> valSeq + 1, symbol |-> symbol]}
                   /\ UNCHANGED validationDiv
           /\ UNCHANGED <<impl, pureVars, recentVars, reqVars, handlerVars, valInFlight, valSent>>

SymbolInput == \E input \in StockInputs : SymbolInputOn(input) /\ UNCHANGED symbolValue

\* the debounce timeout fires: 'Validating...', then await validateSymbol
ValidationTimerFires ==
    \E t \in valTimers :
        /\ valTimers' = valTimers \ {t}
        /\ validationDiv' = [text |-> <<"Validating...">>, class |-> "symbol-validation"]
        /\ valInFlight' = valInFlight \cup
              {[id |-> t.id, symbol |-> t.symbol,
                request |-> fetchCall(impl, "validateSymbol", t.symbol, "null")]}
        /\ valSent' = valSent + 1
        /\ UNCHANGED <<impl, pureVars, recentVars, reqVars, handlerVars,
                       validationTimeout, symbolValue, valSeq>>

\* validateSymbol after makeRequest settled: part_000 turns a failure into
\* { valid: false, reason: 'Validation failed' }, part_001 lets it through
validateSymbol(i, r) ==
    IF i = "part_000" /\ r.state = "rejected"
    THEN [state |-> "fulfilled",
          value |-> [t |-> "object", valid |-> FALSE, reason |-> "Validation failed"]]
    ELSE r

\* what the timeout callback writes after its await
validationMessage(symbol, r) ==
    IF r.state = "rejected" \/ r.value.t = "null"
    THEN [text |-> <<"Unable to validate">>, class |-> "symbol-validation invalid"]
    ELSE IF r.value.t = "object" /\ "valid" \in DOMAIN r.value /\ r.value.valid
    THEN [text |-> <<"valid: ", symbol>>, class |-> "symbol-validation valid"]
    ELSE [text |-> <<"not valid: ",
                     IF r.value.t = "object" /\ "reason" \in DOMAIN r.value
                     THEN r.value.reason ELSE "Symbol not found">>,
          class |-> "symbol-validation invalid"]

\* the timeout callback resumes after await this.api.validateSymbol(symbol)
ValidationResumes ==
    \E f \in valInFlight, response \in ValidationResponses :
        /\ valInFlight' = valInFlight \ {f}
        /\ validationDiv' = validationMessage(f.symbol,
                                validateSymbol(impl, makeRequest(impl, response)))
        /\ UNCHANGED <<impl, pureVars, recentVars, reqVars, handlerVars,
                       validationTimeout, symbolValue, valTimers, valSeq, valSent>>

\* the four forms
HandlersNext ==
    \/ handleStockAnalysis
    \/ handleStockComparison
    \/ handleMarketResearch
    \/ handleCustomQuery
    \/ HandlerResumes
    \/ HideTimerFires

SpecHandlers == UIInit /\ [][HandlersNext]_vars

\* the four forms together with the validation of the symbol field; the
\* analysis requests and the validation timers of one run are counted together
WithinStarts == opCount' + valSeq' <= MaxStarts

UINext ==
    \/ handleStockAnalysis /\ WithinStarts
    \/ handleStockComparison /\ WithinStarts
    \/ handleMarketResearch /\ WithinStarts
    \/ handleCustomQuery /\ WithinStarts
    \/ HandlerResumes
    \/ HideTimerFires
    \/ SymbolInput /\ WithinStarts
    \/ ValidationTimerFires
    \/ ValidationResumes

SpecUI == UIInit /\ [][UINext]_vars

\* the progress display of the research form, with its interval timers firing
ResearchTopic == <<"a">>

ProgressNext ==
    \/ handleMarketResearchOn(ResearchTopic)
    \/ HandlerResumes
    \/ HideTimerFires
    \/ IntervalFires

SpecProgress == UIInit /\ [][ProgressNext]_vars

\* ------------------------------------------------------------------------
\* What the specification calls a syntactically valid symbol:
\* 1 to 5 characters, all uppercase Latin letters
\* ------------------------------------------------------------------------
IsUpperSymbol(s) ==
    /\ Len(s) \in 1..5
    /\ \A i \in 1..Len(s) : s[i] \in UpperLetters

Returned(fn) == fnCall.fn = fn /\ fnResult # NoResult

\* C9: isValidSymbol(s) is true if and only if s is 1 to 5 characters long
\* and every character is an uppercase Latin letter.
C9_IsValidSymbolIffUpper ==
    Returned("isValidSymbol") => (fnResult.value <=> IsUpperSymbol(fnCall.arg))

\* C10: validateSymbolList(list) returns valid exactly when the list has
\* between 2 and 5 members and every member passes the symbol check
\* (isValidSymbol of the same client); otherwise it returns invalid, and when
\* members of a list of admissible size fail the symbol check the returned
\* error names every failing member, not only the first.
C10_ValidateSymbolList ==
    Returned("validateSymbolList") =>
        LET list == fnCall.arg
            failing == {list[k] : k \in {j \in 1..Len(list) : ~isValidSymbol(impl, list[j])}}
            r == fnResult.value
        IN /\ r.valid <=> (Len(list) \in 2..5 /\ failing = {})
           /\ (Len(list) \in 2..5 /\ failing # {}) =>
                  /\ ~r.valid
                  /\ {r.error.names[k] : k \in 1..Len(r.error.names)} = failing

\* C1: in every state of the running application the recent-history list has
\* at most 10 entries, and every addToRecentAnalyses call leaves the first 10
\* elements of (the new entry, followed by the entries held before).
C1_RecentBounded ==
    /\ [](appState # "unloaded" /\ IsList(recentAnalyses)
            => Len(recentAnalyses.items) <= 10)
    /\ [][clock' # clock /\ IsList(recentAnalyses) =>
            /\ IsList(recentAnalyses')
            /\ Len(recentAnalyses'.items) =
                 (IF Len(recentAnalyses.items) < 10 THEN Len(recentAnalyses.items) + 1 ELSE 10)
            /\ recentAnalyses'.items[1].timestamp = clock'
            /\ \A k \in 2..Len(recentAnalyses'.items) :
                 recentAnalyses'.items[k] = recentAnalyses.items[k - 1]]_vars

\* C2: whatever the persisted blob holds, startup completes without an error
\* and the recent-history list is a list, empty when the blob is missing or
\* corrupt, so that a later addToRecentAnalyses succeeds.
C2_StartupNeverFails ==
    appState # "unloaded" =>
        /\ appState = "running"
        /\ IsList(recentAnalyses)
        /\ lastAdd # "threw"

\* C4: a request whose response does not arrive within the configured
\* timeout fails with a timeout error: no request is still pending once more
\* than timeout milliseconds have passed since it was sent.
C4_PendingAtMostTimeout ==
    reqState = "pending" => elapsed <= timeout

\* C8: for a non-2xx response makeRequest fails with the error field of the
\* JSON body when the body parses and has one, and with
\* "HTTP <status>: <statusText>" when the body is absent, unparseable or has
\* no such field; for a 2xx response with a JSON body it returns the parsed
\* body and does not fail.
C8_ErrorMessage ==
    (reqState \in {"fulfilled", "rejected"} /\ reqOutcome.response # NoResult) =>
        LET status == reqOutcome.response.status
            body == reqOutcome.response.body
            r == reqOutcome.result
            hasField == /\ body.kind = "json"
                        /\ body.value.t = "object"
                        /\ "error" \in DOMAIN body.value
        IN /\ (status \notin 200..299 /\ hasField /\ body.value.error # "") =>
                 (r.state = "rejected" /\ r.error.message = <<body.value.error>>)
           /\ (status \notin 200..299 /\ ~hasField) =>
                 (r.state = "rejected"
                    /\ r.error.message = <<"HTTP ", status, ": ", statusText(status)>>)
           /\ (status \in 200..299 /\ body.kind = "json") =>
                 (r.state = "fulfilled" /\ r.value = body.value)

\* ------------------------------------------------------------------------
\* The client-side check in the words of the specification
\* ------------------------------------------------------------------------
Letters == UpperLetters \cup LowerLetters

\* 1 to 5 letters
IsLetterSymbol(s) == Len(s) \in 1..5 /\ \A k \in 1..Len(s) : s[k] \in Letters

StockInputFails(input) == trim(input) = <<>> \/ ~IsLetterSymbol(trim(input))

\* the number of comma-separated members that are symbols is not 2..5
ComparisonInputFails(input) ==
    LET parts == splitOn(trim(input), Comma)
        good == {k \in 1..Len(parts) : IsLetterSymbol(trim(parts[k]))}
    IN trim(input) = <<>> \/ Cardinality(good) \notin 2..5

TextInputFails(input) == trim(input) = <<>>

FailingStockInputs == {x \in StockInputs : StockInputFails(x)}
FailingComparisonInputs == {x \in ComparisonInputs : ComparisonInputFails(x)}
FailingTextInputs == {x \in TextInputs : TextInputFails(x)}

\* nothing but the error message changes
OnlyReportsError ==
    /\ errorMessage' # <<>>
    /\ UNCHANGED <<ops, opCount, tracker, resultsHidden, recentVars, validationVars>>

\* C3: a handler invocation whose input fails the client-side check issues no
\* backend request and does not show the progress display, it only reports a
\* validation error; an input event with a symbol that fails the format check
\* schedules and issues no /validate request, and no /validate request is
\* ever in flight for a symbol that fails the format check.
\* (Stated step by step: a step either has only these effects, or it is not
\* an invocation on a failing input.)
C3_InvalidInputNoRequest ==
    /\ [][/\ OnlyReportsError
             \/ /\ \A input \in FailingStockInputs, depth \in Depths :
                     ~handleStockAnalysisOn(input, depth)
                /\ \A input \in FailingComparisonInputs : ~handleStockComparisonOn(input)
                /\ \A input \in FailingTextInputs :
                     ~handleMarketResearchOn(input) /\ ~handleCustomQueryOn(input)
          /\ \/ /\ valSent' = valSent
                /\ valInFlight' = valInFlight
                /\ valTimers' \subseteq valTimers
                /\ UNCHANGED <<ops, opCount, tracker>>
             \/ \A input \in FailingStockInputs : ~SymbolInputOn(input)]_vars
    /\ [](\A f \in valTimers \cup valInFlight : IsUpperSymbol(f.symbol))

C3_Witness ==
    /\ errorMessage = <<"Please enter a valid stock symbol (1-5 letters)">>
    /\ opCount = 0
    /\ tracker = NewTracker
    /\ validationDiv.text = <<"Invalid format (1-5 letters only)">>
    /\ valSent = 0

\* C5: at most one analysis request started by the handlers is pending at
\* any time.
C5_AtMostOnePending == Cardinality(ops) <= 1

\* C6: once every started operation has completed or failed and the hide
\* delay has elapsed, no progress interval timer is still running.
C6_NoIntervalLeft ==
    (ops = {} /\ tracker.hideTimers = 0) => tracker.intervals = {}

\* C7: from show() until complete() the progress value starts at 0, does not
\* decrease on a timer tick and stays strictly below 100; complete() sets the
\* displayed value to exactly 100 and the display is hidden when the delay
\* that follows has passed.
C7_ProgressBelow100 ==
    /\ [](tracker.lastCall = "show" =>
            /\ tracker.shown >= 0 /\ tracker.shown < 100 * Scale
            /\ tracker.currentProgress >= 0 /\ tracker.currentProgress < 100 * Scale)
    /\ [][/\ tracker'.timerSeq # tracker.timerSeq =>
               (tracker'.shown = 0 /\ tracker'.currentProgress = 0)
          /\ (tracker.lastCall = "show" /\ tracker'.lastCall = "show"
                /\ tracker'.timerSeq = tracker.timerSeq) =>
               (tracker'.shown >= tracker.shown
                  /\ tracker'.currentProgress >= tracker.currentProgress)
          /\ tracker'.hideTimers > tracker.hideTimers => tracker'.shown = 100 * Scale
          /\ tracker'.hideTimers < tracker.hideTimers => tracker'.hidden]_vars

C7_Witness == tracker.lastCall = "show" /\ tracker.shown >= 90 * Scale

\* ------------------------------------------------------------------------
\* Calls of parseSymbolList
\* ------------------------------------------------------------------------
ParseInit ==
    /\ impl \in Impls
    /\ UIIdle
    /\ RecentIdle
    /\ ReqIdle
    /\ fnCall \in [fn : {"parseSymbolList"},
                    arg : BoundedSeq({"A", "a", "1", Space, Comma}, MaxTextLen)]
    /\ fnResult = NoResult

CallParseSymbolList ==
    /\ fnCall.fn = "parseSymbolList"
    /\ fnResult = NoResult
    /\ fnResult' = [value |-> parseSymbolList(impl, fnCall.arg)]
    /\ UNCHANGED <<impl, fnCall, recentVars, reqVars, uiVars>>

SpecParse == ParseInit /\ [][CallParseSymbolList]_vars

\* the segments of a text between its commas, trimmed and uppercased, that
\* are 1 to 5 uppercase letters, in the order of the text
RECURSIVE ExpectedSymbols(_, _)
ExpectedSymbols(text, seg) ==
    LET done == toUpperCase(trim(seg))
        here == IF IsUpperSymbol(done) THEN <<done>> ELSE <<>>
    IN IF text = <<>> THEN here
       ELSE IF Head(text) = Comma THEN here \o ExpectedSymbols(Tail(text), <<>>)
       ELSE ExpectedSymbols(Tail(text), Append(seg, Head(text)))

\* C11: parseSymbolList(text) returns, in input order, exactly the
\* comma-separated segments of text, trimmed and uppercased, that pass the
\* symbol check; empty segments and segments that fail the check are dropped.
C11_ParseSymbolList ==
    Returned("parseSymbolList") => fnResult.value = ExpectedSymbols(fnCall.arg, <<>>)

\* ------------------------------------------------------------------------
\* Normalized input, in the words of the specification
\* ------------------------------------------------------------------------
\* no lowercase letter is left
IsUpperCased(s) == \A k \in 1..Len(s) : s[k] \notin LowerLetters

\* no leading or trailing whitespace
IsTrimmed(s) == s = <<>> \/ (s[1] # Space /\ s[Len(s)] # Space)

\* C12: every domain operation transmits normalized input: the symbol sent
\* by analyzeStock, analyzeStockAsync and validateSymbol and each symbol sent
\* by compareStocks is uppercase, and the topic or query sent by
\* marketResearch and customQuery has no leading or trailing whitespace.
C12_NormalizedInput ==
    request # NoRequest =>
        LET op == request.op
            sent == request.config
        IN /\ op \in {"analyzeStock", "analyzeStockAsync"} => IsUpperCased(sent.body.symbol)
           /\ op = "validateSymbol" => IsUpperCased(request.url[3])
           /\ op = "compareStocks" =>
                \A k \in 1..Len(sent.body.symbols) : IsUpperCased(sent.body.symbols[k])
           /\ op = "marketResearch" => IsTrimmed(sent.body.topic)
           /\ op = "customQuery" => IsTrimmed(sent.body.query)

\* ------------------------------------------------------------------------
\* Failures of an analysis request
\* ------------------------------------------------------------------------
FailingResponses == {x \in AnalysisResponses : makeRequest(impl, x).state = "rejected"}

\* C13: a handler invocation issues one backend request and does not retry;
\* when the request fails the error message is shown, the progress display is
\* hidden and the interval timer started for the invocation is stopped.
\* (Stated step by step: when a handler resumes with a failed request, the
\* step starts no request, shows the message of the failure, hides the
\* display and leaves the invocation's interval timer cleared.)
C13_FailureReported ==
    [][\A o \in ops, response \in FailingResponses, setItemOk \in BOOLEAN :
          HandlerResumesOn(o, response, setItemOk) =>
              /\ opCount' = opCount
              /\ ops' = ops \ {o}
              /\ errorMessage' = formatError(impl, makeRequest(impl, response).error)
              /\ tracker'.hidden
              /\ o.interval \notin tracker'.intervals]_vars

\* ------------------------------------------------------------------------
\* IntelliMarketApp: rendering of report text (formatMarkdown)
\* ------------------------------------------------------------------------
\* A text is a sequence of characters; the HTML tags the renderer writes are
\* single elements of the sequence ("<li>", "</p>", ...).

\* Array.prototype.join(d) of an array of texts
RECURSIVE join(_, _)
join(parts, d) ==
    IF parts = <<>> THEN <<>>
    ELSE IF Len(parts) = 1 THEN parts[1]
    ELSE LET half == Len(parts) \div 2
         IN join(SubSeq(parts, 1, half), d) \o <<d>>
            \o join(SubSeq(parts, half + 1, Len(parts)), d)

\* the texts of a sequence, one after the other
RECURSIVE concat(_)
concat(parts) ==
    IF parts = <<>> THEN <<>>
    ELSE IF Len(parts) = 1 THEN parts[1]
    ELSE LET half == Len(parts) \div 2
         IN concat(SubSeq(parts, 1, half)) \o concat(SubSeq(parts, half + 1, Len(parts)))

\* escapeHtml: textContent read back as innerHTML
escapeHtml(text) ==
    [k \in 1..Len(text) |->
        CASE text[k] = "<" -> "&lt;" [] text[k] = ">" -> "&gt;" [] text[k] = "&" -> "&amp;"
          [] OTHER -> text[k]]

\* line.includes('|') && line.trim().startsWith('|') && line.trim().endsWith('|')
looksLikeRow(line) ==
    /\ \E k \in 1..Len(line) : line[k] = "|"
    /\ trim(line) # <<>>
    /\ trim(line)[1] = "|"
    /\ trim(line)[Len(trim(line))] = "|"

\* line.split('|').map(cell => cell.trim()).filter(cell => cell !== '')
cellsOf(line) ==
    LET parts == splitOn(line, "|")
        nonEmpty(cell) == cell # <<>>
    IN SelectSeq([k \in 1..Len(parts) |-> trim(parts[k])], nonEmpty)

\* the while loop of parseTable, from currentIndex (0-based): the rows
\* collected and the index it stops at
RECURSIVE dataRowsFrom(_, _)
dataRowsFrom(lines, currentIndex) ==
    IF currentIndex >= Len(lines)
    THEN [dataRows |-> <<>>, nextIndex |-> currentIndex]
    ELSE LET line == lines[currentIndex + 1]
         IN IF ~looksLikeRow(line)
            THEN [dataRows |-> <<>>, nextIndex |-> currentIndex]
            ELSE LET cells == cellsOf(line)
                     rest == dataRowsFrom(lines, currentIndex + 1)
                 IN [dataRows |-> (IF Len(cells) > 0 THEN <<cells>> ELSE <<>>) \o rest.dataRows,
                     nextIndex |-> rest.nextIndex]

Indent(n) == [k \in 1..n |-> Space]

\* one body row written without the check index < headers.length
rowHtml_allCells(row, headerCount) ==
    Indent(4) \o <<"<tr>", "\n">>
    \o concat([index \in 1..Len(row) |->
                  Indent(6) \o <<"<td>">> \o escapeHtml(row[index]) \o <<"</td>", "\n">>])
    \o Indent(4) \o <<"</tr>", "\n">>

\* one body row: the cells with index < headers.length
rowHtml(row, headerCount) ==
    Indent(4) \o <<"<tr>", "\n">>
    \o concat([index \in 1..Len(row) |->
                  IF index - 1 < headerCount
                  THEN Indent(6) \o <<"<td>">> \o escapeHtml(row[index]) \o <<"</td>", "\n">>
                  ELSE <<>>])
    \o Indent(4) \o <<"</tr>", "\n">>

\* parseTable(lines, startIndex), startIndex counted from 0
parseTable(lines, startIndex) ==
    LET headers == cellsOf(lines[startIndex + 1])
        body == dataRowsFrom(lines, startIndex + 2)
        dataRows == body.dataRows
        th(header) == Indent(6) \o <<"<th>">> \o escapeHtml(header) \o <<"</th>", "\n">>
        thead == IF Len(headers) > 0
                 THEN Indent(2) \o <<"<thead>", "\n">> \o Indent(4) \o <<"<tr>", "\n">>
                      \o concat([k \in 1..Len(headers) |-> th(headers[k])])
                      \o Indent(4) \o <<"</tr>", "\n">> \o Indent(2) \o <<"</thead>", "\n">>
                 ELSE <<>>
        tbody == IF Len(dataRows) > 0
                 THEN Indent(2) \o <<"<tbody>", "\n">>
                      \o concat([k \in 1..Len(dataRows) |-> rowHtml(dataRows[k], Len(headers))])
                      \o Indent(2) \o <<"</tbody>", "\n">>
                 ELSE <<>>
    IN [html |-> <<"<table class=\"markdown-table\">", "\n">> \o thead \o tbody \o <<"</table>">>,
        nextIndex |-> body.nextIndex]

\* nextLine && nextLine.includes('-') && nextLine.includes('|')
isTableStart(lines, i) ==
    /\ i + 1 < Len(lines)
    /\ lines[i + 2] # <<>>
    /\ \E k \in 1..Len(lines[i + 2]) : lines[i + 2][k] = "-"
    /\ \E k \in 1..Len(lines[i + 2]) : lines[i + 2][k] = "|"

\* the while loop of parseMarkdownTables, from line i (0-based)
RECURSIVE tablesFrom(_, _)
tablesFrom(lines, i) ==
    IF i >= Len(lines) THEN <<>>
    ELSE IF looksLikeRow(lines[i + 1]) /\ isTableStart(lines, i)
    THEN LET tableHtml == parseTable(lines, i)
         IN <<tableHtml.html>> \o tablesFrom(lines, tableHtml.nextIndex)
    ELSE <<lines[i + 1]>> \o tablesFrom(lines, i + 1)

parseMarkdownTables(text) == join(tablesFrom(splitOn(text, "\n"), 0), "\n")

\* The regular expressions with the flags gm match inside one line ('.' does
\* not match a line break), so their replace calls work line by line.

\* /^prefix(.*$)/gm -> open $1 close; /^(.*)$/gm is the case of no prefix
wrapLines(text, prefix, open, close) ==
    LET lines == splitOn(text, "\n")
        wrapped(line) ==
            IF Len(line) >= Len(prefix) /\ SubSeq(line, 1, Len(prefix)) = prefix
            THEN <<open>> \o SubSeq(line, Len(prefix) + 1, Len(line)) \o <<close>>
            ELSE line
    IN join([k \in 1..Len(lines) |-> wrapped(lines[k])], "\n")

\* /\*\*(.*?)\*\*/g (n = 2) and /\*(.*?)\*/g (n = 1) on one line: from the
\* left, n asterisks up to the nearest n asterisks that follow
RECURSIVE replacePairs(_, _, _, _)
replacePairs(line, n, open, close) ==
    LET starsAt(q) == q + n - 1 <= Len(line) /\ \A j \in q..(q + n - 1) : line[j] = "*"
    IN IF line = <<>> THEN <<>>
       ELSE IF starsAt(1) /\ \E q \in (n + 1)..Len(line) : starsAt(q)
       THEN LET q == CHOOSE q \in (n + 1)..Len(line) :
                        starsAt(q) /\ \A r \in (n + 1)..(q - 1) : ~starsAt(r)
            IN <<open>> \o SubSeq(line, n + 1, q - 1) \o <<close>>
               \o replacePairs(SubSeq(line, q + n, Len(line)), n, open, close)
       ELSE <<Head(line)>> \o replacePairs(Tail(line), n, open, close)

replacePairsInLines(text, n, open, close) ==
    LET lines == splitOn(text, "\n")
    IN join([k \in 1..Len(lines) |-> replacePairs(lines[k], n, open, close)], "\n")

\* /(<li>.*<\/li>)/s without the g flag: one match, from the first <li> to
\* the last </li> of the whole text
wrapListItems(text) ==
    LET opens == {k \in 1..Len(text) : text[k] = "<li>"}
        first == CHOOSE k \in opens : \A j \in opens : k <= j
        closes == {k \in 1..Len(text) : text[k] = "</li>" /\ k > first}
        last == CHOOSE k \in closes : \A j \in closes : j <= k
    IN IF opens = {} THEN text
       ELSE IF closes = {} THEN text
       ELSE SubSeq(text, 1, first - 1) \o <<"<ul>">> \o SubSeq(text, first, last)
            \o <<"</ul>">> \o SubSeq(text, last + 1, Len(text))

\* /\n\n/g -> '</p><p>': matches are taken from the left and do not
\* overlap, so a match starts at an even offset of a run of line breaks
replaceBlankLines(text) ==
    LET blankLineAt(k) ==
            /\ k >= 1 /\ k < Len(text)
            /\ text[k] = "\n" /\ text[k + 1] = "\n"
            /\ LET before == {j \in 1..(k - 1) : text[j] # "\n"}
                   lastOther == IF before = {} THEN 0
                                ELSE CHOOSE j \in before : \A i \in before : i <= j
               IN (k - 1 - lastOther) % 2 = 0
    IN [k \in 1..Len(text) |->
           IF blankLineAt(k) THEN "</p>"
           ELSE IF blankLineAt(k - 1) THEN "<p>"
           ELSE text[k]]

\* a text without the elements a replace call removed
withoutRemoved(text) ==
    LET kept(x) == x # "<removed>"
    IN SelectSeq(text, kept)

\* /<p><\/p>/g -> ''
removeEmptyParagraphs(text) ==
    withoutRemoved([k \in 1..Len(text) |->
        IF \/ text[k] = "<p>" /\ k < Len(text) /\ text[k + 1] = "</p>"
           \/ text[k] = "</p>" /\ k > 1 /\ text[k - 1] = "<p>"
        THEN "<removed>" ELSE text[k]])

\* /<p>(tag)/g -> '$1': a <p> in front of one of the tags is dropped
dropBefore(text, x, tags) ==
    withoutRemoved([k \in 1..Len(text) |->
        IF text[k] = x /\ k < Len(text) /\ text[k + 1] \in tags
        THEN "<removed>" ELSE text[k]])

\* /(tag)<\/p>/g -> '$1': a </p> behind one of the tags is dropped
dropAfter(text, x, tags) ==
    withoutRemoved([k \in 1..Len(text) |->
        IF text[k] = x /\ k > 1 /\ text[k - 1] \in tags
        THEN "<removed>" ELSE text[k]])

\* the chain of replace calls of formatMarkdown
replaceChain(text) ==
    LET t1 == wrapLines(wrapLines(wrapLines(wrapLines(text,
                    <<"#", Space>>, "<h1>", "</h1>"),
                    <<"#", "#", Space>>, "<h2>", "</h2>"),
                    <<"#", "#", "#", Space>>, "<h3>", "</h3>"),
                    <<"#", "#", "#", "#", Space>>, "<h4>", "</h4>")
        t2 == replacePairsInLines(replacePairsInLines(t1, 2, "<strong>", "</strong>"),
                                  1, "<em>", "</em>")
        t3 == wrapListItems(wrapLines(t2, <<"-", Space>>, "<li>", "</li>"))
        t4 == wrapLines(replaceBlankLines(t3), <<>>, "<p>", "</p>")
        t5 == removeEmptyParagraphs(t4)
        t6 == dropAfter(dropBefore(t5, "<p>", {"<h1>", "<h2>", "<h3>", "<h4>", "<h5>", "<h6>"}),
                        "</p>", {"</h1>", "</h2>", "</h3>", "</h4>", "</h5>", "</h6>"})
        t7 == dropAfter(dropBefore(t6, "<p>", {"<ul>"}), "</p>", {"</ul>"})
    IN dropAfter(dropBefore(t7, "<p>", {"<table class=\"markdown-table\">"}),
                 "</p>", {"</table>"})

\* formatMarkdown(text): the placeholder when !text; text.split in
\* parseMarkdownTables is a TypeError for a value that is not a string
formatMarkdown(text) ==
    IF \/ text.t \in {"undefined", "null"}
       \/ text.t = "string" /\ text.chars = <<>>
       \/ text.t = "number" /\ text.value = 0
    THEN [threw |-> FALSE, html |-> <<"<p>No content available</p>">>]
    ELSE IF text.t # "string"
    THEN [threw |-> TRUE, error |-> Error("TypeError", <<"text.split is not a function">>)]
    ELSE [threw |-> FALSE, html |-> replaceChain(parseMarkdownTables(text.chars))]

\* ------------------------------------------------------------------------
\* Calls of formatMarkdown
\* ------------------------------------------------------------------------
MarkdownInit ==
    /\ impl \in Impls
    /\ UIIdle
    /\ RecentIdle
    /\ ReqIdle
    /\ LET lines == { <<"-", Space, "a">>, <<"b">>, <<>>, <<"#", Space, "b">>,
                      <<"*", "b", "*">>, <<"|", "a", "|">>, <<"|", "-", "|">> }
           texts == {join(ls, "\n") : ls \in BoundedSeq(lines, MaxLines)}
           values == {[t |-> "undefined"], JNull, JObject,
                      [t |-> "number", value |-> 0], [t |-> "number", value |-> 7]}
                     \cup {[t |-> "string", chars |-> text] : text \in texts}
       IN fnCall \in [fn : {"formatMarkdown"}, arg : values]
    /\ fnResult = NoResult

CallFormatMarkdown ==
    /\ fnCall.fn = "formatMarkdown"
    /\ fnResult = NoResult
    /\ fnResult' = [value |-> formatMarkdown(fnCall.arg)]
    /\ UNCHANGED <<impl, fnCall, recentVars, reqVars, uiVars>>

SpecMarkdown == MarkdownInit /\ [][CallFormatMarkdown]_vars

\* C14: formatMarkdown raises for no input value: undefined, null and the
\* empty string give the placeholder "<p>No content available</p>", and every
\* other value, a non-string value such as an object or a number included,
\* gives an HTML string.
C14_FormatMarkdownNeverRaises ==
    Returned("formatMarkdown") =>
        /\ ~fnResult.value.threw
        /\ fnCall.arg \in {[t |-> "undefined"], JNull, [t |-> "string", chars |-> <<>>]} =>
              fnResult.value.html = <<"<p>No content available</p>">>

\* ------------------------------------------------------------------------
\* Lists in the rendered text, in the words of the specification
\* ------------------------------------------------------------------------
IsListLine(line) == Len(line) >= 2 /\ line[1] = "-" /\ line[2] = Space

\* the number of maximal runs of consecutive list lines
ListRuns(lines) ==
    Cardinality({k \in 1..Len(lines) :
                    IsListLine(lines[k]) /\ (k = 1 \/ ~IsListLine(lines[k - 1]))})

CountOf(text, x) == Cardinality({k \in 1..Len(text) : text[k] = x})

\* position k of the HTML is inside no list
OutsideLists(html, k) ==
    CountOf(SubSeq(html, 1, k), "<ul>") = CountOf(SubSeq(html, 1, k), "</ul>")

\* C17: in the output of formatMarkdown every maximal run of consecutive
\* lines starting with "- " is wrapped in its own unordered list: there are
\* as many lists as runs, and the text of a line that is no list line (the
\* letter b in the texts checked) is outside every list.
C17_OneListPerRun ==
    (Returned("formatMarkdown") /\ fnCall.arg.t = "string" /\ ~fnResult.value.threw) =>
        LET lines == splitOn(fnCall.arg.chars, "\n")
            html == fnResult.value.html
        IN fnCall.arg.chars # <<>> =>
              /\ CountOf(html, "<ul>") = ListRuns(lines)
              /\ CountOf(html, "</ul>") = ListRuns(lines)
              /\ \A k \in 1..Len(html) : html[k] = "b" => OutsideLists(html, k)

\* ------------------------------------------------------------------------
\* Calls of parseTable
\* ------------------------------------------------------------------------
TableInit ==
    /\ impl \in Impls
    /\ UIIdle
    /\ RecentIdle
    /\ ReqIdle
    /\ LET headerLines == { <<"|", "a", "|">>, <<"|", "a", "|", "b", "|">>, <<"|", Space, "|">> }
           separatorLines == { <<"|", "-", "|">>, <<"|", "a", "-", "b", "|">> }
           bodyLines == { <<"|", "a", "|">>, <<"|", "a", "|", "b", "|">>,
                          <<"|", "<", "|", "b", "|", "a", "|">>, <<"|", Space, "|">>,
                          <<Space, "|", "b", "|", Space>>, <<"b">> }
           calls == {[lines |-> before \o <<header, separator>> \o rows,
                      startIndex |-> Len(before)] :
                        before \in {<<>>, << <<"b">> >>}, header \in headerLines,
                        separator \in separatorLines,
                        rows \in BoundedSeq(bodyLines, MaxBodyLines)}
       IN fnCall \in [fn : {"parseTable"}, arg : calls]
    /\ fnResult = NoResult

CallParseTable ==
    /\ fnCall.fn = "parseTable"
    /\ fnResult = NoResult
    /\ looksLikeRow(fnCall.arg.lines[fnCall.arg.startIndex + 1])
    /\ isTableStart(fnCall.arg.lines, fnCall.arg.startIndex)
    /\ fnResult' = [value |-> parseTable(fnCall.arg.lines, fnCall.arg.startIndex)]
    /\ UNCHANGED <<impl, fnCall, recentVars, reqVars, uiVars>>

SpecTable == TableInit /\ [][CallParseTable]_vars

\* ------------------------------------------------------------------------
\* Tables, in the words of the specification
\* ------------------------------------------------------------------------
\* the line starts and ends with '|' after trimming
RowLike(line) == trim(line) # <<>> /\ Head(trim(line)) = "|" /\ trim(line)[Len(trim(line))] = "|"

\* the non-empty cells of a line: the trimmed texts between its '|'
NonEmptyCells(line) ==
    LET parts == splitOn(line, "|")
        filled == {k \in 1..Len(parts) : trim(parts[k]) # <<>>}
        kth(i) == CHOOSE k \in filled : Cardinality({j \in filled : j <= k}) = i
    IN [i \in 1..Cardinality(filled) |-> trim(parts[kth(i)])]

\* the texts between the tags open and close, in order
CellsBetween(html, open, close) ==
    LET isOpen(k) == html[k] = open
        isClose(k) == html[k] = close
        opens == SelectSeq([k \in 1..Len(html) |-> k], isOpen)
        closes == SelectSeq([k \in 1..Len(html) |-> k], isClose)
    IN [i \in 1..Len(opens) |-> SubSeq(html, opens[i] + 1, closes[i] - 1)]

\* the header cells and the body rows read back from an HTML table
ReadHeader(html) == CellsBetween(html, "<th>", "</th>")

ReadRows(html) ==
    IF \A k \in 1..Len(html) : html[k] # "<tbody>" THEN <<>>
    ELSE LET at == CHOOSE k \in 1..Len(html) : html[k] = "<tbody>"
             pieces == splitOn(SubSeq(html, at + 1, Len(html)), "<tr>")
         IN [i \in 1..(Len(pieces) - 1) |-> CellsBetween(pieces[i + 1], "<td>", "</td>")]

\* the rows of a sequence of rows that have a cell
WithCells(rows) ==
    LET some(row) == row # <<>>
    IN SelectSeq(rows, some)

EscapedRow(row) == [k \in 1..Len(row) |-> escapeHtml(row[k])]

\* the length of the maximal run of row-like lines from line `from` (1-based)
RunLength(lines, from) ==
    LET stops == {j \in 0..(Len(lines) - from + 1) :
                     from + j > Len(lines) \/ ~RowLike(lines[from + j])}
    IN CHOOSE j \in stops : \A i \in stops : j <= i

\* the call of parseTable that returned, and the table it returned
TableLines == fnCall.arg.lines
TableStart == fnCall.arg.startIndex + 1
TableHeaderCount == Len(NonEmptyCells(TableLines[TableStart]))
TableRun == RunLength(TableLines, TableStart + 2)

\* C15: the body rows of a table parsed by parseTable are the maximal run of
\* lines after the separator that start and end with '|' after trimming;
\* every emitted row holds the first min(n, headerCount) of its line's n
\* non-empty cells, in order; a line without a non-empty cell emits no row and
\* does not end the table.
C15_BodyRows ==
    Returned("parseTable") =>
        LET cells == [i \in 1..TableRun |-> NonEmptyCells(TableLines[TableStart + 1 + i])]
            firstCells(row) ==
                SubSeq(row, 1, IF Len(row) < TableHeaderCount THEN Len(row) ELSE TableHeaderCount)
            expected == [i \in 1..Len(WithCells(cells)) |->
                            EscapedRow(firstCells(WithCells(cells)[i]))]
        IN /\ ReadRows(fnResult.value.html) = expected
           /\ fnResult.value.nextIndex = fnCall.arg.startIndex + 2 + TableRun

\* a table with a line that has more cells than the header, and with a line
\* without cells that is followed by a row
C15_Witness ==
    /\ Returned("parseTable")
    /\ TableHeaderCount > 0
    /\ \E i \in 1..TableRun : Len(NonEmptyCells(TableLines[TableStart + 1 + i])) > TableHeaderCount
    /\ \E i \in 1..(TableRun - 1) :
          /\ NonEmptyCells(TableLines[TableStart + 1 + i]) = <<>>
          /\ NonEmptyCells(TableLines[TableStart + 2 + i]) # <<>>
    /\ Len(ReadRows(fnResult.value.html)) >= 2

\* a separator row: nothing but '|', '-', ':' and blanks
PureSeparator(line) ==
    /\ \E k \in 1..Len(line) : line[k] = "-"
    /\ \A k \in 1..Len(line) : line[k] \in {"|", "-", ":", Space}

\* C16: the table transform loses no data: the header cells and the body-row
\* cells read back from the HTML table are, modulo HTML escaping, the cells
\* of the header line and of every line of the block after the header that is
\* not a pure separator row.
C16_NoDataLoss ==
    Returned("parseTable") =>
        LET after == [i \in 1..(TableRun + 1) |-> TableLines[TableStart + i]]
            data(line) == ~PureSeparator(line)
            cells == [i \in 1..Len(SelectSeq(after, data)) |->
                         EscapedRow(NonEmptyCells(SelectSeq(after, data)[i]))]
        IN /\ ReadHeader(fnResult.value.html) = EscapedRow(NonEmptyCells(TableLines[TableStart]))
           /\ WithCells(ReadRows(fnResult.value.html)) = WithCells(cells)

\* C20: the delayed hide scheduled by complete() affects only the operation
\* that completed: when show() was called for a new operation after that
\* complete() and the delay then elapses, the display of the new operation
\* stays visible and its interval timer keeps running.
\* (Stated step by step: a step in which a pending hide fires while show() is
\* the last call made on the tracker leaves the display visible and the
\* running intervals as they are.)
C20_HideOnlyOwnOperation ==
    [][(tracker.lastCall = "show" /\ ops # {} /\ tracker'.hideTimers < tracker.hideTimers) =>
          /\ ~tracker'.hidden
          /\ tracker'.intervals = tracker.intervals]_vars

\* ------------------------------------------------------------------------
\* The symbol field alone: input events, debounce timers, /validate answers
\* ------------------------------------------------------------------------
TypedInputs == { <<>>, <<"a">>, <<"B", Space>>, <<"A", "1">> }

\* an 'input' event; the symbol the listener reads is recorded
SymbolTypedOn(input) == SymbolInputOn(input) /\ symbolValue' = toUpperCase(trim(input))

SymbolTyped == \E input \in TypedInputs : SymbolTypedOn(input)

ValidationNext ==
    \/ SymbolTyped
    \/ ValidationTimerFires
    \/ ValidationResumes

SpecValidation == UIInit /\ [][ValidationNext]_vars

\* C18: the debounced validation cancels and reschedules: at most one
\* validation timer is scheduled at any time, every input event cancels the
\* timer the previous input event scheduled, and a /validate request is
\* issued only for the symbol of the latest input event, by the timer that
\* event scheduled (the value stayed unchanged while the timer ran).
C18_Debounce ==
    /\ [](Cardinality(valTimers) <= 1)
    /\ [][/\ \A input \in TypedInputs :
                SymbolTypedOn(input) => valTimers \cap valTimers' = {}
          /\ valSent' # valSent =>
                /\ valSent' = valSent + 1
                /\ symbolValue' = symbolValue
                /\ \E f \in valInFlight' \ valInFlight :
                      /\ f.id = validationTimeout
                      /\ f.symbol = symbolValue
                      /\ f.request.url[3] = symbolValue]_vars

\* a second input event cancelled the timer of the first, and the timer it
\* scheduled itself has fired
C18_Witness ==
    /\ valSeq = 2
    /\ valSent = 1
    /\ valTimers = {}
    /\ \E f \in valInFlight : f.id = 2 /\ f.symbol = symbolValue

\* the validation messages the listener can show for a symbol
MessagesFor(symbol) ==
    IF symbol = <<>> THEN {[text |-> <<>>, class |-> "symbol-validation"]}
    ELSE IF ~isValidSymbol(impl, symbol)
    THEN {[text |-> <<"Invalid format (1-5 letters only)">>, class |-> "symbol-validation invalid"]}
    ELSE {validationMessage(symbol, validateSymbol(impl, makeRequest(impl, response))) :
             response \in ValidationResponses}

\* C19: once all validation timers and /validate responses have settled, the
\* validation message displayed is one computed for the most recent input
\* value: the cleared state for an empty input, the format error for a
\* symbol that fails the format check, a validation result for that symbol
\* otherwise.
C19_MessageForLatestInput ==
    (valTimers = {} /\ valInFlight = {}) => validationDiv \in MessagesFor(symbolValue)

\* ------------------------------------------------------------------------
\* Recent history written by the handlers, in the words of the specification
\* ------------------------------------------------------------------------
\* the list after the step is the list before it with one entry for the
\* invocation put in front (the oldest dropped beyond RecentLimit)
OneEntryAdded(o) ==
    /\ IsList(recentAnalyses')
    /\ Len(recentAnalyses'.items) =
           (IF Len(recentAnalyses.items) < RecentLimit
            THEN Len(recentAnalyses.items) + 1 ELSE RecentLimit)
    /\ Head(recentAnalyses'.items).query = o.recent[1]
    /\ Head(recentAnalyses'.items).type = o.recent[2]
    /\ Tail(recentAnalyses'.items) =
           SubSeq(recentAnalyses.items, 1, Len(recentAnalyses'.items) - 1)

\* C21: a handler invocation whose backend request succeeded adds exactly one
\* entry to the recent-history list and rewrites the persisted blob with the
\* new list; an invocation whose input was rejected by validation, or whose
\* request failed, leaves the list and the persisted blob unchanged.
\* (Stated step by step, for the step in which the handler returns.)
C21_OneEntryPerSuccess ==
    [][/\ \A o \in ops, response \in AnalysisResponses, setItemOk \in BOOLEAN :
            HandlerResumesOn(o, response, setItemOk) =>
                IF response \in FailingResponses
                THEN UNCHANGED <<recentAnalyses, storage>>
                ELSE /\ OneEntryAdded(o)
                     /\ storage' = StorageJson(recentAnalyses')
       /\ \A input \in FailingStockInputs, analysisType \in Depths :
            handleStockAnalysisOn(input, analysisType) => UNCHANGED <<recentAnalyses, storage>>
       /\ \A input \in FailingComparisonInputs :
            handleStockComparisonOn(input) => UNCHANGED <<recentAnalyses, storage>>
       /\ \A input \in FailingTextInputs :
            (handleMarketResearchOn(input) \/ handleCustomQueryOn(input)) =>
                UNCHANGED <<recentAnalyses, storage>>]_vars

====
